---- MODULE Spec2Model ----
(***************************************************************************)
(* A model of the two batch scripts of the repository:                     *)
(*   scripts/convert_excel_to_csv.py  (convert_excel_to_csv)               *)
(*   scripts/rename_csvs.py           (rename_csvs)                        *)
(* File names and cell texts are sequences of one-character strings, so    *)
(* that the candidate pattern, the date parsing and the file name          *)
(* formatting are computed character by character.                         *)
(***************************************************************************)
EXTENDS Integers, Sequences, FiniteSets, TLC

VARIABLES
    dir_exists,       \* whether the directory the scripts work in exists
    dir,              \* the entries of that directory: file name -> content
    dir0,             \* the directory as it was when the current run started
    pc,               \* position of the running script
    run,              \* which invocation of rename_csvs this is
    files,            \* rename_csvs: the list built at line 13
    i,                \* rename_csvs: number of entries of files already taken by the for loop
    date_row,         \* rename_csvs: local date_row of the last iteration
    target_date_str,  \* rename_csvs: local target_date_str of the last iteration
    new_filename,     \* rename_csvs: local new_filename of the last iteration
    out,              \* console output so far, one record per print
    xls,              \* convert_excel_to_csv: the workbook given
    k,                \* convert_excel_to_csv: number of sheets the for loop has finished
    dt                \* lines 47-50 in isolation: the cell handed to pd.to_datetime

vars ==
    <<dir_exists, dir, dir0, pc, run, files, i, date_row, target_date_str,
      new_filename, out, xls, k, dt>>

-----------------------------------------------------------------------------
(* Bounds of the model *)

MaxFiles == 3     \* most entries the directory holds when rename_csvs starts
MaxRuns == 2      \* invocations of rename_csvs in a row
MaxSheets == 3    \* most sheets of a workbook
MaxYear == 2027   \* last calendar year of the dates handed to lines 47-50
YearSpan == 9     \* number of years before MaxYear covered as well

-----------------------------------------------------------------------------
(* Characters and numbers *)

Digits == <<"0", "1", "2", "3", "4", "5", "6", "7", "8", "9">>

IsDigit(c) == \E d \in 1..10 : Digits[d] = c

DigitVal(c) == (CHOOSE d \in 1..10 : Digits[d] = c) - 1

AllDigits(s) == \A j \in 1..Len(s) : IsDigit(s[j])

RECURSIVE ToInt(_)
ToInt(s) == IF s = <<>> THEN 0
            ELSE 10 * ToInt(SubSeq(s, 1, Len(s) - 1)) + DigitVal(s[Len(s)])

\* str(n) for n >= 0
RECURSIVE Str(_)
Str(n) == IF n < 10 THEN <<Digits[n + 1]>>
          ELSE Str(n \div 10) \o <<Digits[(n % 10) + 1]>>

RECURSIVE ZeroPad(_, _)
ZeroPad(s, w) == IF Len(s) >= w THEN s ELSE ZeroPad(<<"0">> \o s, w)

DotCsv == <<".", "c", "s", "v">>

-----------------------------------------------------------------------------
(* rename_csvs: the candidate pattern, line 11 and the filter of line 13 *)

\* ^\d+\.\d+\.csv : digits, a dot, digits, then ".csv" up to the end of s
MatchesBody(s) ==
    /\ Len(s) >= 7
    /\ SubSeq(s, Len(s) - 3, Len(s)) = DotCsv
    /\ \E j \in 2..(Len(s) - 5) :
          /\ s[j] = "."
          /\ AllDigits(SubSeq(s, 1, j - 1))
          /\ AllDigits(SubSeq(s, j + 1, Len(s) - 4))

\* the pattern with the separator class [._] where the first \. stands
MatchesLoose(name) ==
    /\ Len(name) >= 7
    /\ SubSeq(name, Len(name) - 3, Len(name)) = DotCsv
    /\ \E j \in 2..(Len(name) - 5) :
          /\ name[j] \in {".", "_"}
          /\ AllDigits(SubSeq(name, 1, j - 1))
          /\ AllDigits(SubSeq(name, j + 1, Len(name) - 4))

\* pattern.match(f): Python's $ also matches just before one trailing newline
Matches(name) ==
    \/ MatchesBody(name)
    \/ /\ Len(name) >= 1
       /\ name[Len(name)] = "\n"
       /\ MatchesBody(SubSeq(name, 1, Len(name) - 1))

-----------------------------------------------------------------------------
(* File contents and pd.read_csv(file_path, header=None, nrows=5), line 22 *)

nrows == 5        \* line 22
WedIndex == 4     \* line 39: date_row[4]
FirstIndex == 1   \* line 41: date_row[1]

\* What a directory entry holds: a subdirectory, or a text file given as its
\* lines, each line the sequence of its comma-separated fields (a blank line
\* is the empty sequence).
Dir == [kind |-> "dir", rows |-> <<>>]

File(rows) == [kind |-> "file", rows |-> rows]

\* The values a DataFrame cell takes: NaN, a string, a number; None is the
\* value of an unset local.
NaN == [t |-> "nan", s |-> <<>>, n |-> 0]

StrCell(s) == [t |-> "str", s |-> s, n |-> 0]

NumCell(n) == [t |-> "num", s |-> <<>>, n |-> n]

None == [t |-> "none", s |-> <<>>, n |-> 0]

NoRow == <<>>

Min(a, b) == IF a < b THEN a ELSE b

RECURSIVE NonBlank(_)
NonBlank(rows) ==
    IF rows = <<>> THEN <<>>
    ELSE IF Head(rows) = <<>> THEN NonBlank(Tail(rows))
    ELSE <<Head(rows)>> \o NonBlank(Tail(rows))

Field(rec, c) == IF c <= Len(rec) THEN rec[c] ELSE <<>>

\* dtype inference over the rows read: a column whose non-empty fields are all
\* digit strings is numeric
NumericColumn(head, c) ==
    /\ \E r \in 1..Len(head) : Field(head[r], c) # <<>>
    /\ \A r \in 1..Len(head) : AllDigits(Field(head[r], c))

ParseCell(head, r, c) ==
    LET f == Field(head[r], c) IN
    IF f = <<>> THEN NaN
    ELSE IF NumericColumn(head, c) THEN NumCell(ToInt(f))
    ELSE StrCell(f)

\* The DataFrame of the first n records, or an error: a directory, a file
\* without records, or a record longer than the first one.
ReadCsvN(content, n) ==
    LET recs == NonBlank(content.rows)
        head == SubSeq(recs, 1, Min(n, Len(recs)))
        ncols == Len(recs[1])
    IN  IF content.kind = "dir" \/ recs = <<>> THEN [ok |-> FALSE, rows |-> <<>>]
        ELSE IF \E r \in 1..Len(head) : Len(head[r]) > ncols
             THEN [ok |-> FALSE, rows |-> <<>>]
        ELSE [ok |-> TRUE,
              rows |-> [r \in 1..Len(head) |->
                          [c \in 1..ncols |-> ParseCell(head, r, c)]]]

ReadCsvWhole(content) == ReadCsvN(content, Len(content.rows))

ReadCsv(content) == ReadCsvN(content, nrows)

\* lines 24-28: the first row whose row[0] == 'Time'
Time == <<"T", "i", "m", "e">>

IsTimeRow(row) == row[1] = StrCell(Time)

FindDateRow(df) ==
    IF \E r \in 1..Len(df) : IsTimeRow(df[r])
    THEN df[CHOOSE r \in 1..Len(df) :
                /\ IsTimeRow(df[r])
                /\ \A q \in 1..(r - 1) : ~IsTimeRow(df[q])]
    ELSE NoRow

\* lines 38-42
notna(cell) == cell.t # "nan"

SelectDate(row) ==
    IF Len(row) > WedIndex /\ notna(row[WedIndex + 1]) THEN row[WedIndex + 1]
    ELSE IF Len(row) > FirstIndex /\ notna(row[FirstIndex + 1]) THEN row[FirstIndex + 1]
    ELSE None

\* line 44: if target_date_str
Truthy(cell) ==
    CASE cell.t = "none" -> FALSE
      [] cell.t = "str" -> cell.s # <<>>
      [] cell.t = "num" -> cell.n # 0
      [] OTHER -> TRUE

-----------------------------------------------------------------------------
(* Dates: pd.to_datetime (line 47), dt.isocalendar() (line 48) and the new
   file name (line 50) *)

IsLeap(y) == y % 4 = 0 /\ (y % 100 # 0 \/ y % 400 = 0)

DaysInMonth(y, m) ==
    IF m = 2 THEN (IF IsLeap(y) THEN 29 ELSE 28)
    ELSE IF m \in {4, 6, 9, 11} THEN 30 ELSE 31

DaysBeforeYear(y) ==
    (y - 1) * 365 + ((y - 1) \div 4) - ((y - 1) \div 100) + ((y - 1) \div 400)

RECURSIVE DaysBeforeMonth(_, _)
DaysBeforeMonth(y, m) ==
    IF m = 1 THEN 0 ELSE DaysBeforeMonth(y, m - 1) + DaysInMonth(y, m - 1)

\* proleptic Gregorian ordinal, 0001-01-01 being day 1
Ymd2Ord(y, m, d) == DaysBeforeYear(y) + DaysBeforeMonth(y, m) + d

Date(y, m, d) == [ok |-> TRUE, y |-> y, m |-> m, d |-> d]

NoDate == [ok |-> FALSE, y |-> 0, m |-> 0, d |-> 0]

\* the date n nanoseconds after 1970-01-01T00:00:00; every number the model
\* holds is below the 86 400 000 000 000 ns of one day
EpochDate(n) == Date(1970, 1, 1)

\* "YYYY-MM-DD", month and day in range
ParseYmd(s) ==
    IF /\ Len(s) = 10
       /\ s[5] = "-" /\ s[8] = "-"
       /\ AllDigits(SubSeq(s, 1, 4)) /\ AllDigits(SubSeq(s, 6, 7))
       /\ AllDigits(SubSeq(s, 9, 10))
    THEN LET y == ToInt(SubSeq(s, 1, 4))
             m == ToInt(SubSeq(s, 6, 7))
             d == ToInt(SubSeq(s, 9, 10))
         IN  IF /\ y >= 1678 /\ y <= 2261      \* whole years a Timestamp holds
                /\ m >= 1 /\ m <= 12
                /\ d >= 1 /\ d <= DaysInMonth(y, m)
             THEN Date(y, m, d) ELSE NoDate
    ELSE NoDate

\* " HH:MM:SS", each part in range
ValidHms(s) ==
    /\ Len(s) = 9
    /\ s[1] = " " /\ s[4] = ":" /\ s[7] = ":"
    /\ AllDigits(SubSeq(s, 2, 3)) /\ AllDigits(SubSeq(s, 5, 6))
    /\ AllDigits(SubSeq(s, 8, 9))
    /\ ToInt(SubSeq(s, 2, 3)) < 24
    /\ ToInt(SubSeq(s, 5, 6)) < 60
    /\ ToInt(SubSeq(s, 8, 9)) < 60

\* pd.to_datetime of a cell, for the texts "YYYY-MM-DD" and
\* "YYYY-MM-DD HH:MM:SS", texts that are no date at all, and numbers
\* (nanoseconds since the epoch); the calendar date of the Timestamp, or the
\* exception
ToDatetime(cell) ==
    CASE cell.t = "num" -> EpochDate(cell.n)
      [] cell.t = "str" /\ Len(cell.s) = 10 -> ParseYmd(cell.s)
      [] cell.t = "str" /\ Len(cell.s) = 19 ->
            IF ValidHms(SubSeq(cell.s, 11, 19)) THEN ParseYmd(SubSeq(cell.s, 1, 10))
            ELSE NoDate
      [] OTHER -> NoDate

\* datetime.isocalendar(), as CPython computes it
IsoWeek1Monday(year) ==
    LET firstday == Ymd2Ord(year, 1, 1)
        firstweekday == (firstday + 6) % 7
        week1monday == firstday - firstweekday
    IN  IF firstweekday > 3 THEN week1monday + 7 ELSE week1monday

FloorDiv7(x) == IF x >= 0 THEN x \div 7 ELSE -(((-x) + 6) \div 7)

\* the week number taken from the calendar year alone: (day of year - 1) // 7 + 1
CalendarWeek(date) ==
    [year |-> date.y,
     week |-> ((DaysBeforeMonth(date.y, date.m) + date.d - 1) \div 7) + 1,
     day  |-> ((Ymd2Ord(date.y, date.m, date.d) + 6) % 7) + 1]

isocalendar(date) ==
    LET today == Ymd2Ord(date.y, date.m, date.d)
        week  == FloorDiv7(today - IsoWeek1Monday(date.y))
        day   == (today - IsoWeek1Monday(date.y)) % 7
    IN  IF week < 0
        THEN [year |-> date.y - 1,
              week |-> FloorDiv7(today - IsoWeek1Monday(date.y - 1)) + 1,
              day  |-> day + 1]
        ELSE IF week >= 52 /\ today >= IsoWeek1Monday(date.y + 1)
        THEN [year |-> date.y + 1, week |-> 1, day |-> day + 1]
        ELSE [year |-> date.y, week |-> week + 1, day |-> day + 1]

\* f"{year}_{week:02d}.csv"
NewFilename(iso) == Str(iso.year) \o <<"_">> \o ZeroPad(Str(iso.week), 2) \o DotCsv

-----------------------------------------------------------------------------
(* The file system *)

\* a rename that leaves the source entry behind (a copy)
RenameKeepsSource(d, src, dst) ==
    IF dst \in DOMAIN d /\ d[dst].kind = "dir" /\ d[src].kind # "dir"
    THEN [ok |-> FALSE, dir |-> d]
    ELSE [ok |-> TRUE,
          dir |-> [n \in DOMAIN d \cup {dst} |-> IF n = dst THEN d[src] ELSE d[n]]]

\* os.rename(src, dst) on POSIX: dst is replaced when it is a file; the call
\* fails when dst is a directory and src is a file
OsRename(d, src, dst) ==
    IF dst \in DOMAIN d /\ d[dst].kind = "dir" /\ d[src].kind # "dir"
    THEN [ok |-> FALSE, dir |-> d]
    ELSE [ok |-> TRUE,
          dir |-> [n \in (DOMAIN d \ {src}) \cup {dst} |->
                      IF n = dst THEN d[src] ELSE d[n]]]

\* the orders os.listdir may return a set of names in
Perms(S) ==
    {f \in [1..Cardinality(S) -> S] : \A a, b \in 1..Cardinality(S) : f[a] = f[b] => a = b}

NoWorkbook == [ok |-> FALSE, sheets |-> <<>>]

-----------------------------------------------------------------------------
(* The directories rename_csvs is run on *)

DateText(y, m, d) ==
    ZeroPad(Str(y), 4) \o <<"-">> \o ZeroPad(Str(m), 2) \o <<"-">> \o ZeroPad(Str(d), 2)

Midnight == <<" ", "0", "0", ":", "0", "0", ":", "0", "0">>

Name_1_1 == <<"1", ".", "1">> \o DotCsv

Name_10_3 == <<"1", "0", ".", "3">> \o DotCsv

Name_notes == <<"n", "o", "t", "e", "s">> \o DotCsv

Name_2025_02 == <<"2", "0", "2", "5", "_", "0", "2">> \o DotCsv

Name_txt == Name_1_1 \o <<".", "t", "x", "t">>

Names == {Name_1_1, Name_10_3, Name_notes, Name_2025_02, Name_txt}

Filler == <<<<"h">>, <<"a">>, <<"b">>, <<"c">>, <<"d">>, <<"e">>>>

Other == <<<<"x">>, <<"1">>, <<"2">>, <<"3">>, <<"4">>, <<"5">>>>

\* the marker row of a full week, after the header row: index 4 is taken
WeekFile ==
    File(<<Filler,
           <<Time, DateText(2025, 1, 6), DateText(2025, 1, 7), DateText(2025, 1, 8),
             DateText(2025, 1, 9), DateText(2025, 1, 10)>>,
           Other>>)

\* a marker row of two cells only: index 1 is taken
TwoCellFile == File(<<<<Time, DateText(2025, 6, 2)>>>>)

\* index 4 is empty in the first marker row; a second marker row follows
FallbackFile ==
    File(<<Filler,
           <<Time, DateText(2025, 1, 6) \o Midnight>>,
           <<Time, DateText(2025, 6, 2)>>>>)

\* the marker row is the sixth row
LateFile ==
    File(<<Filler, Other, Other, Other, Other, <<Time, DateText(2025, 6, 2)>>>>)

\* the marker row is the sixth line and the fifth record: line 1 is blank
BlankLineFile ==
    File(<<<<>>, <<<<"h">>, <<"a">>>>, <<<<"x">>, <<"1">>>>, <<<<"x">>, <<"2">>>>,
           <<<<"x">>, <<"3">>>>, <<Time, DateText(2025, 6, 2)>>>>)

\* index 4 holds a text that is no date, index 1 a date
BadDateFile ==
    File(<<Filler, <<Time, DateText(2025, 1, 6), <<>>, <<>>, DateText(2025, 2, 30)>>>>)

\* the marker row has no other cell filled
NoDateFile == File(<<Filler, <<Time>>>>)

\* index 4 holds the number 0, index 1 a date
ZeroFile == File(<<<<Time, DateText(2025, 1, 6), <<>>, <<>>, <<"0">>>>>>)

Contents ==
    {WeekFile, TwoCellFile, FallbackFile, LateFile, BlankLineFile, BadDateFile,
     NoDateFile, ZeroFile, Dir}

\* what the entries rename_csvs passes over hold
OtherContents == {WeekFile, TwoCellFile, Dir}

InitDirs ==
    UNION {{d \in [S -> Contents] : \A n \in S : ~Matches(n) => d[n] \in OtherContents} :
             S \in {T \in SUBSET Names : Cardinality(T) <= MaxFiles}}

-----------------------------------------------------------------------------
(* rename_csvs *)

\* one printed line: what it says, the file it is about, the new name if any,
\* and the invocation that printed it
Msg(m, f, t) == [msg |-> m, f |-> f, t |-> t, run |-> run]

NoName == <<>>

\* line 13 without the filter
ListAll(d) == DOMAIN d

\* line 13: the entries of the directory the pattern matches
ListCandidates(d) == {f \in DOMAIN d : Matches(f)}

\* what lines 22-50 compute from the content of one file: the DataFrame read,
\* date_row, target_date_str, its truth value, the parsed date and the new name
LoopBody(c) ==
    LET df   == ReadCsv(c)
        row  == IF df.ok THEN FindDateRow(df.rows) ELSE NoRow
        sel  == IF row # NoRow THEN SelectDate(row) ELSE None
        date == IF Truthy(sel) THEN ToDatetime(sel) ELSE NoDate
    IN  [ok |-> df.ok, row |-> row, sel |-> sel, truthy |-> Truthy(sel),
         date |-> date,
         name |-> IF date.ok THEN NewFilename(isocalendar(date)) ELSE NoName]

\* LoopBody over the contents a directory entry of the model can hold
Computed == [c \in Contents |-> LoopBody(c)]

\* the loop variable of line 15 and the values of its iteration
filename == files[i + 1]

Readable == filename \in DOMAIN dir /\ Computed[dir[filename]].ok

CurRow == Computed[dir[filename]].row

CurSel == Computed[dir[filename]].sel

CurTruthy == Computed[dir[filename]].truthy

CurDate == Computed[dir[filename]].date

CurName == Computed[dir[filename]].name

InLoop == pc = "loop" /\ i < Len(files)

\* line 13
ListDir ==
    /\ pc = "start"
    /\ dir_exists
    /\ files' \in Perms(ListCandidates(dir))
    /\ i' = 0
    /\ pc' = "loop"
    /\ dir0' = dir
    /\ UNCHANGED <<dir_exists, dir, run, date_row, target_date_str, new_filename,
                   out, xls, k, dt>>

\* line 13: os.listdir raises when there is no such directory, and nothing
\* in rename_csvs catches it
ListDirRaises ==
    /\ pc = "start"
    /\ ~dir_exists
    /\ pc' = "raised"
    /\ UNCHANGED <<dir_exists, dir, dir0, run, files, i, date_row, target_date_str,
                   new_filename, out, xls, k, dt>>

\* a failing read that ends the run, as when the try of line 17 is around the loop
ReadErrorAborts ==
    /\ InLoop
    /\ ~Readable
    /\ out' = Append(out, Msg("Error processing", filename, NoName))
    /\ pc' = "done"
    /\ UNCHANGED <<dir_exists, dir, dir0, run, files, i, date_row, target_date_str,
                   new_filename, xls, k, dt>>

\* line 22 raises; lines 62-63
ReadError ==
    /\ InLoop
    /\ ~Readable
    /\ out' = Append(out, Msg("Error processing", filename, NoName))
    /\ i' = i + 1
    /\ UNCHANGED <<dir_exists, dir, dir0, pc, run, files, date_row, target_date_str,
                   new_filename, xls, k, dt>>

\* lines 30-32
RowMissing ==
    /\ InLoop
    /\ Readable
    /\ CurRow = NoRow
    /\ date_row' = NoRow
    /\ out' = Append(out, Msg("Could not find 'Time' row", filename, NoName))
    /\ i' = i + 1
    /\ UNCHANGED <<dir_exists, dir, dir0, pc, run, files, target_date_str,
                   new_filename, xls, k, dt>>

\* lines 38-44 and 59-60
DateMissing ==
    /\ InLoop
    /\ Readable
    /\ CurRow # NoRow
    /\ ~CurTruthy
    /\ date_row' = CurRow
    /\ target_date_str' = CurSel
    /\ out' = Append(out, Msg("No valid date found", filename, NoName))
    /\ i' = i + 1
    /\ UNCHANGED <<dir_exists, dir, dir0, pc, run, files, new_filename, xls, k, dt>>

\* a parse failure answered by renaming to the name of the epoch date, as
\* when the failure is coerced to a default date
ParseFailedRenames ==
    /\ InLoop
    /\ Readable
    /\ CurRow # NoRow
    /\ CurTruthy
    /\ ~CurDate.ok
    /\ date_row' = CurRow
    /\ target_date_str' = CurSel
    /\ new_filename' = NewFilename(isocalendar(Date(1970, 1, 1)))
    /\ dir' = OsRename(dir, filename, new_filename').dir
    /\ out' = Append(out, Msg("Renamed", filename, new_filename'))
    /\ i' = i + 1
    /\ UNCHANGED <<dir_exists, dir0, pc, run, files, xls, k, dt>>

\* line 47 raises; lines 57-58
ParseFailed ==
    /\ InLoop
    /\ Readable
    /\ CurRow # NoRow
    /\ CurTruthy
    /\ ~CurDate.ok
    /\ date_row' = CurRow
    /\ target_date_str' = CurSel
    /\ out' = Append(out, Msg("Error parsing date", filename, NoName))
    /\ i' = i + 1
    /\ UNCHANGED <<dir_exists, dir, dir0, pc, run, files, new_filename, xls, k, dt>>

\* line 54 raises; lines 57-58
RenameFailed ==
    /\ InLoop
    /\ Readable
    /\ CurRow # NoRow
    /\ CurTruthy
    /\ CurDate.ok
    /\ ~OsRename(dir, filename, CurName).ok
    /\ date_row' = CurRow
    /\ target_date_str' = CurSel
    /\ new_filename' = CurName
    /\ out' = Append(out, Msg("Error parsing date", filename, NoName))
    /\ i' = i + 1
    /\ UNCHANGED <<dir_exists, dir, dir0, pc, run, files, xls, k, dt>>

\* lines 47-55
Renamed ==
    /\ InLoop
    /\ Readable
    /\ CurRow # NoRow
    /\ CurTruthy
    /\ CurDate.ok
    /\ OsRename(dir, filename, CurName).ok
    /\ dir' = OsRename(dir, filename, CurName).dir
    /\ date_row' = CurRow
    /\ target_date_str' = CurSel
    /\ new_filename' = CurName
    /\ out' = Append(out, Msg("Renamed", filename, CurName))
    /\ i' = i + 1
    /\ UNCHANGED <<dir_exists, dir0, pc, run, files, xls, k, dt>>

\* the for loop of line 15 is exhausted and rename_csvs returns
Return ==
    /\ pc = "loop"
    /\ i = Len(files)
    /\ pc' = "done"
    /\ UNCHANGED <<dir_exists, dir, dir0, run, files, i, date_row, target_date_str,
                   new_filename, out, xls, k, dt>>

\* lines 65-67: the script is started again on the same directory
Rerun ==
    /\ pc = "done"
    /\ run < MaxRuns
    /\ run' = run + 1
    /\ pc' = "start"
    /\ files' = <<>>
    /\ i' = 0
    /\ date_row' = NoRow
    /\ target_date_str' = None
    /\ new_filename' = NoName
    /\ UNCHANGED <<dir_exists, dir, dir0, out, xls, k, dt>>


Init ==
    /\ dir_exists \in BOOLEAN
    /\ dir \in IF dir_exists THEN InitDirs ELSE {<<>>}
    /\ dir0 = dir
    /\ pc = "start"
    /\ run = 1
    /\ files = <<>>
    /\ i = 0
    /\ date_row = NoRow
    /\ target_date_str = None
    /\ new_filename = NoName
    /\ out = <<>>
    /\ xls = NoWorkbook
    /\ k = 0
    /\ dt = None

Next ==
    \/ ListDir
    \/ ListDirRaises
    \/ ReadError
    \/ RowMissing
    \/ DateMissing
    \/ ParseFailed
    \/ RenameFailed
    \/ Renamed
    \/ Return
    \/ Rerun

Spec == Init /\ [][Next]_vars

\* the interpreter runs the script to its end: a step that can be taken is taken
FairSpec == Spec /\ WF_vars(Next)

-----------------------------------------------------------------------------
(* convert_excel_to_csv *)

\* pd.read_excel(xls, sheet_name=...), line 16: the first row of the sheet
\* names the columns, a blank name becoming "Unnamed: <index>"
Unnamed(c) == <<"U", "n", "n", "a", "m", "e", "d", ":", " ">> \o Str(c)

ReadExcel(rows) ==
    [columns |-> [c \in 1..Len(rows[1]) |->
                     IF rows[1][c] = <<>> THEN Unnamed(c - 1) ELSE rows[1][c]],
     data |-> Tail(rows)]

\* df.to_csv(csv_path, index=False), line 23: the column names, then the rows
ToCsv(df) == File(<<df.columns>> \o df.data)

\* one file name for every sheet
CsvFilenameFixed(sheet_name) == <<"o", "u", "t">> \o DotCsv

\* line 19
CsvFilename(sheet_name) == sheet_name \o DotCsv

\* the sheet the for loop of line 14 is at
sheet == xls.sheets[k + 1]

csv_path == CsvFilename(sheet.name)

AtSheet == pc = "sheets" /\ k < Len(xls.sheets)

ErrorMsg == Msg("Error processing", <<"x", "l", "s", "x">>, NoName)

\* line 7 raises; lines 26-27
OpenFails ==
    /\ pc = "open"
    /\ ~xls.ok
    /\ out' = Append(out, ErrorMsg)
    /\ pc' = "done"
    /\ UNCHANGED <<dir_exists, dir, dir0, run, files, i, date_row, target_date_str,
                   new_filename, xls, k, dt>>

\* line 7
Open ==
    /\ pc = "open"
    /\ xls.ok
    /\ pc' = "mkdir"
    /\ UNCHANGED <<dir_exists, dir, dir0, run, files, i, date_row, target_date_str,
                   new_filename, out, xls, k, dt>>

\* line 10: the directory is there
DirExists ==
    /\ pc = "mkdir"
    /\ dir_exists
    /\ pc' = "sheets"
    /\ UNCHANGED <<dir_exists, dir, dir0, run, files, i, date_row, target_date_str,
                   new_filename, out, xls, k, dt>>

\* lines 10-11
MakeDirs ==
    /\ pc = "mkdir"
    /\ ~dir_exists
    /\ dir_exists' = TRUE
    /\ pc' = "sheets"
    /\ UNCHANGED <<dir, dir0, run, files, i, date_row, target_date_str,
                   new_filename, out, xls, k, dt>>

\* line 11 raises; lines 26-27
MakeDirsFails ==
    /\ pc = "mkdir"
    /\ ~dir_exists
    /\ out' = Append(out, ErrorMsg)
    /\ pc' = "done"
    /\ UNCHANGED <<dir_exists, dir, dir0, run, files, i, date_row, target_date_str,
                   new_filename, xls, k, dt>>

\* a failing sheet that is skipped, as when the try of line 5 is inside the loop
SheetReadFailsContinues ==
    /\ AtSheet
    /\ out' = out \o <<Msg("Processing sheet", sheet.name, NoName), ErrorMsg>>
    /\ k' = k + 1
    /\ UNCHANGED <<dir_exists, dir, dir0, pc, run, files, i, date_row,
                   target_date_str, new_filename, xls, dt>>

\* line 15, line 16 raises; lines 26-27
SheetReadFails ==
    /\ AtSheet
    /\ out' = out \o <<Msg("Processing sheet", sheet.name, NoName), ErrorMsg>>
    /\ pc' = "done"
    /\ UNCHANGED <<dir_exists, dir, dir0, run, files, i, date_row, target_date_str,
                   new_filename, xls, k, dt>>

\* lines 15-16, line 23 raises; lines 26-27. The file is as it was, or, when
\* it could be opened for writing, holds a beginning of the text.
SheetWriteFails ==
    /\ AtSheet
    /\ \/ UNCHANGED dir
       \/ /\ ~(csv_path \in DOMAIN dir /\ dir[csv_path].kind = "dir")
          /\ \E n \in 0..(Len(sheet.rows) - 1) :
                dir' = [f \in DOMAIN dir \cup {csv_path} |->
                           IF f = csv_path
                           THEN File(SubSeq(ToCsv(ReadExcel(sheet.rows)).rows, 1, n))
                           ELSE dir[f]]
    /\ out' = out \o <<Msg("Processing sheet", sheet.name, NoName), ErrorMsg>>
    /\ pc' = "done"
    /\ UNCHANGED <<dir_exists, dir0, run, files, i, date_row, target_date_str,
                   new_filename, xls, k, dt>>

\* lines 15-24
SheetSaved ==
    /\ AtSheet
    /\ ~(csv_path \in DOMAIN dir /\ dir[csv_path].kind = "dir")
    /\ dir' = [f \in DOMAIN dir \cup {csv_path} |->
                  IF f = csv_path THEN ToCsv(ReadExcel(sheet.rows)) ELSE dir[f]]
    /\ out' = out \o <<Msg("Processing sheet", sheet.name, NoName),
                       Msg("Saved", csv_path, NoName)>>
    /\ k' = k + 1
    /\ UNCHANGED <<dir_exists, dir0, pc, run, files, i, date_row, target_date_str,
                   new_filename, xls, dt>>

\* the for loop of line 14 is exhausted and convert_excel_to_csv returns
ExportReturn ==
    /\ pc = "sheets"
    /\ k = Len(xls.sheets)
    /\ pc' = "done"
    /\ UNCHANGED <<dir_exists, dir, dir0, run, files, i, date_row, target_date_str,
                   new_filename, out, xls, k, dt>>

\* The workbooks and directories convert_excel_to_csv is run on
SheetNames == {<<"1", ".", "1">>, <<"1", "0", ".", "3">>, <<"S", "1">>, <<"S", "2">>}

WeekSheet ==
    <<<<<<>>, <<>>, <<>>, <<>>, <<>>, <<>>>>,
      <<Time, DateText(2025, 1, 6) \o Midnight, DateText(2025, 1, 7) \o Midnight,
        DateText(2025, 1, 8) \o Midnight, DateText(2025, 1, 9) \o Midnight,
        DateText(2025, 1, 10) \o Midnight>>,
      <<<<"a">>, <<"b">>, <<"c">>, <<"d">>, <<"e">>, <<"f">>>>>>

PlainSheet == <<<<<<"h">>, <<"g">>>>, <<<<"a">>, <<"b">>>>>>

Sheets == {[name |-> n, rows |-> r] : n \in SheetNames, r \in {WeekSheet, PlainSheet}}

Workbooks ==
    {NoWorkbook} \cup
    {[ok |-> TRUE, sheets |-> q] :
        q \in {q \in UNION {[1..n -> Sheets] : n \in 1..MaxSheets} :
                  \A a, b \in 1..Len(q) : q[a].name = q[b].name => a = b}}

ExportDirs ==
    UNION {[S -> {WeekFile, Dir}] : S \in SUBSET {Name_1_1, Name_notes}}

ExportInit ==
    /\ xls \in Workbooks
    /\ dir_exists \in BOOLEAN
    /\ dir \in IF dir_exists THEN ExportDirs ELSE {<<>>}
    /\ dir0 = dir
    /\ pc = "open"
    /\ run = 1
    /\ files = <<>>
    /\ i = 0
    /\ date_row = NoRow
    /\ target_date_str = None
    /\ new_filename = NoName
    /\ out = <<>>
    /\ k = 0
    /\ dt = None

ExportNext ==
    \/ OpenFails
    \/ Open
    \/ DirExists
    \/ MakeDirs
    \/ MakeDirsFails
    \/ SheetReadFails
    \/ SheetWriteFails
    \/ SheetSaved
    \/ ExportReturn

ExportSpec == ExportInit /\ [][ExportNext]_vars

-----------------------------------------------------------------------------
(* Lines 47-50 of rename_csvs on their own: one cell is parsed and named *)

\* lines 47-50
ParseAndName ==
    /\ pc = "parse"
    /\ ToDatetime(dt).ok
    /\ new_filename' = NewFilename(isocalendar(ToDatetime(dt)))
    /\ pc' = "named"
    /\ UNCHANGED <<dir_exists, dir, dir0, run, files, i, date_row, target_date_str,
                   out, xls, k, dt>>

\* line 47 raises
ParseRaises ==
    /\ pc = "parse"
    /\ ~ToDatetime(dt).ok
    /\ pc' = "raised"
    /\ UNCHANGED <<dir_exists, dir, dir0, run, files, i, date_row, target_date_str,
                   new_filename, out, xls, k, dt>>

\* every day number 1..31 of every month: some of the texts are no dates
DateCells ==
    {StrCell(DateText(y, m, d)) :
        y \in (MaxYear - YearSpan)..MaxYear, m \in 1..12, d \in 1..31}

IsoInit ==
    /\ dt \in DateCells
    /\ pc = "parse"
    /\ dir_exists = TRUE
    /\ dir = <<>>
    /\ dir0 = <<>>
    /\ run = 1
    /\ files = <<>>
    /\ i = 0
    /\ date_row = NoRow
    /\ target_date_str = dt
    /\ new_filename = NoName
    /\ out = <<>>
    /\ xls = NoWorkbook
    /\ k = 0

IsoNext == ParseAndName \/ ParseRaises

IsoSpec == IsoInit /\ [][IsoNext]_vars

-----------------------------------------------------------------------------
(* Properties of rename_csvs *)

\* what the current invocation has printed
Now == SelectSeq(out, LAMBDA m : m.run = run)

Running == pc \in {"loop", "done"}

Diagnostics ==
    {"Error processing", "Could not find 'Time' row", "No valid date found",
     "Error parsing date"}

RowOf(c) == FindDateRow(ReadCsv(c).rows)

\* C1 as stated: after a run every entry whose name the pattern does not match
\* has the name and the content it had before the run.
C1_Original ==
    pc = "done" =>
        \A n \in DOMAIN dir0 :
            ~Matches(n) => n \in DOMAIN dir /\ dir[n] = dir0[n]

\* C1 amended: rename_csvs reads and renames only entries whose names match the
\* pattern; an entry whose name does not match keeps its name, and keeps its
\* content unless a candidate was renamed onto that name during the run.
C1_NonCandidatesKept ==
    Running =>
        /\ \A j \in 1..Len(Now) : Matches(Now[j].f)
        /\ \A n \in DOMAIN dir0 :
              ~Matches(n) =>
                  /\ n \in DOMAIN dir
                  /\ \/ dir[n] = dir0[n]
                     \/ \E j \in 1..Len(Now) : Now[j].msg = "Renamed" /\ Now[j].t = n

C1_Witness ==
    /\ pc = "done"
    /\ Name_notes \in DOMAIN dir0 /\ Name_notes \in DOMAIN dir
    /\ dir[Name_notes] = dir0[Name_notes]
    /\ Name_2025_02 \in DOMAIN dir0
    /\ dir[Name_2025_02] # dir0[Name_2025_02]
    /\ \E j \in 1..Len(Now) : Now[j].msg = "Renamed" /\ Now[j].t = Name_2025_02

\* C2: a candidate is renamed only when its marker row was found, a date cell
\* was selected and the cell parsed as a date; a candidate that ends in any
\* other way keeps its name and content and has a diagnostic printed.
C2_RenameOnlyWhenParsed ==
    Running =>
        /\ Len(Now) = i
        /\ \A j \in 1..Len(Now) :
              LET m == Now[j]
                  c == dir0[m.f]
              IN  /\ m.f = files[j]
                  /\ m.msg = "Renamed" =>
                        /\ ReadCsv(c).ok
                        /\ RowOf(c) # NoRow
                        /\ SelectDate(RowOf(c)) # None
                        /\ ToDatetime(SelectDate(RowOf(c))).ok
                  /\ m.msg # "Renamed" =>
                        /\ m.msg \in Diagnostics
                        /\ m.f \in DOMAIN dir
                        /\ dir[m.f] = c

C2_Witness ==
    /\ pc = "done"
    /\ \E j \in 1..Len(Now) :
          /\ Now[j].msg = "Error parsing date"
          /\ dir0[Now[j].f] = BadDateFile
    /\ \E j \in 1..Len(Now) : Now[j].msg = "Renamed"

\* C4: every entry the pattern matched when the directory was listed is
\* processed exactly once and ends in one terminal state, whatever happened to
\* the entries before it, and the run terminates.
C4_BatchCompletes ==
    /\ [](pc = "loop" => <>(pc = "done"))
    /\ [](pc = "done" =>
            /\ Len(Now) = Len(files)
            /\ {files[j] : j \in 1..Len(files)} = ListCandidates(dir0)
            /\ \A a, b \in 1..Len(files) : files[a] = files[b] => a = b
            /\ \A j \in 1..Len(files) :
                  /\ Now[j].f = files[j]
                  /\ Now[j].msg \in Diagnostics \cup {"Renamed"})

C4_Witness ==
    /\ pc = "done"
    /\ Len(files) = 2
    /\ Len(Now) = 2
    /\ Now[1].msg = "Error processing"
    /\ Now[2].msg = "Renamed"

\* C6: once the marker row is found the date cell is the one at index 4 if it
\* is present and not empty, else the one at index 1 if it is present and not
\* empty, else none; "no date found" is reported in that last case, and the
\* choice looks at presence and emptiness only.
C6_SelectionPrecedence ==
    Running =>
        \A j \in 1..Len(Now) :
            LET m == Now[j]
                c == dir0[m.f]
                row == RowOf(c)
                has4 == Len(row) > 4 /\ row[5].t # "nan"
                has1 == Len(row) > 1 /\ row[2].t # "nan"
            IN  (ReadCsv(c).ok /\ row # NoRow) =>
                    /\ (m.msg = "No valid date found") <=> (~has4 /\ ~has1)
                    /\ j = Len(Now) =>
                          target_date_str =
                              IF has4 THEN row[5] ELSE IF has1 THEN row[2] ELSE None

Last(q) == q[Len(q)]

Printed(m) == Len(out') = Len(out) + 1 /\ Last(out').msg = m

\* C8: a successful rename of f to t removes the entry f, leaves under t
\* exactly the content f had, replacing whatever t held, and changes no other
\* entry; so of the candidates of one run renamed to one name, the content of
\* the last one is what the name holds at the end.
C8_RenameReplaces ==
    /\ [][Printed("Renamed") =>
            LET f == Last(out').f
                t == Last(out').t
            IN  /\ f \in DOMAIN dir
                /\ f \notin DOMAIN dir'
                /\ DOMAIN dir' = (DOMAIN dir \ {f}) \cup {t}
                /\ dir'[t] = dir[f]
                /\ \A n \in DOMAIN dir' \ {t} : dir'[n] = dir[n]]_vars
    /\ [](pc = "done" =>
            \A j \in 1..Len(Now) :
                (/\ Now[j].msg = "Renamed"
                 /\ \A h \in (j + 1)..Len(Now) :
                       ~(Now[h].msg = "Renamed" /\ Now[h].t = Now[j].t))
                => /\ Now[j].t \in DOMAIN dir
                   /\ dir[Now[j].t] = dir0[Now[j].f])

C8_Witness ==
    /\ pc = "done"
    /\ Len(Now) = 2
    /\ Now[1].msg = "Renamed" /\ Now[2].msg = "Renamed"
    /\ Now[1].t = Now[2].t
    /\ Now[1].t \in DOMAIN dir0
    /\ dir0[Now[1].f] # dir0[Now[2].f]
    /\ dir0[Now[1].t] # dir0[Now[2].f]
    /\ dir[Now[2].t] = dir0[Now[2].f]

\* the place of the first marker record among the first five records of a
\* file's text, 0 when there is none
FirstTime(c) ==
    LET recs == NonBlank(c.rows)
        S == {r \in 1..Min(5, Len(recs)) : recs[r][1] = Time}
    IN  IF S = {} THEN 0 ELSE CHOOSE r \in S : \A q \in S : r <= q

SameText(cell, field) ==
    CASE cell.t = "nan" -> field = <<>>
      [] cell.t = "str" -> field = cell.s
      [] cell.t = "num" -> field # <<>> /\ AllDigits(field) /\ ToInt(field) = cell.n
      [] OTHER -> FALSE

\* C9: the marker row is looked for among the first 5 rows only, in order, and
\* the first row whose first cell is "Time" is used; when there is none, also
\* when one stands at row 6 or later, a not-found condition is reported and
\* the file keeps its name and content.
C9_MarkerInFirstRows ==
    Running =>
        \A j \in 1..Len(Now) :
            LET m == Now[j]
                c == dir0[m.f]
                rec == NonBlank(c.rows)[FirstTime(c)]
            IN  c.kind = "file" =>
                    /\ (m.msg = "Could not find 'Time' row") <=> (FirstTime(c) = 0)
                    /\ FirstTime(c) = 0 => m.f \in DOMAIN dir /\ dir[m.f] = c
                    /\ (FirstTime(c) # 0 /\ j = Len(Now)) =>
                          /\ Len(date_row) >= Len(rec)
                          /\ \A col \in 1..Len(date_row) :
                                SameText(date_row[col], Field(rec, col))

C9_Witness ==
    /\ pc = "done"
    /\ Len(Now) = 2
    /\ dir0[Now[1].f] = LateFile
    /\ Now[1].msg = "Could not find 'Time' row"
    /\ dir[Now[1].f] = LateFile
    /\ dir0[Now[2].f] = FallbackFile
    /\ Now[2].msg = "Renamed"
    /\ Now[2].t = Name_2025_02

\* C10: no rename target matches the candidate pattern, so no rename replaces
\* or removes a candidate still waiting to be processed, and a second run
\* right after a first one renames nothing and leaves every entry as it was.
C10_Idempotent ==
    [][/\ Printed("Renamed") => ~Matches(Last(out').t)
       /\ pc' = "loop" =>
             \A j \in (i' + 1)..Len(files') :
                 /\ files'[j] \in DOMAIN dir'
                 /\ dir'[files'[j]] = dir0'[files'[j]]
       /\ run' >= 2 => (dir' = dir /\ ~Printed("Renamed"))]_vars

C10_Witness ==
    /\ run = 2
    /\ pc = "done"
    /\ Len(Now) >= 1
    /\ \E j \in 1..Len(out) : out[j].run = 1 /\ out[j].msg = "Renamed"

-----------------------------------------------------------------------------
(* Properties of the new file name *)

\* C7: for a parsed date the new name is <Y>_<WW>.csv, (Y, W) being the ISO
\* year and week of the date: the week belongs to the year that holds its
\* Thursday, W is in 1..53 and WW is W in two digits; 2025-01-10 gives
\* 2025_02.csv.
C7_IsoName ==
    pc = "named" =>
        LET y == ToInt(SubSeq(dt.s, 1, 4))
            m == ToInt(SubSeq(dt.s, 6, 7))
            d == ToInt(SubSeq(dt.s, 9, 10))
            ord == Ymd2Ord(y, m, d)
            thursday == ord - ((ord + 6) % 7) + 3
        IN  /\ \E Y \in {y - 1, y, y + 1} :
                  \E W \in 1..53 :
                      /\ Ymd2Ord(Y, 1, 1) <= thursday
                      /\ thursday <= Ymd2Ord(Y, 12, 31)
                      /\ W = ((thursday - Ymd2Ord(Y, 1, 1)) \div 7) + 1
                      /\ new_filename =
                             Str(Y) \o <<"_", Digits[(W \div 10) + 1], Digits[(W % 10) + 1]>>
                                    \o DotCsv
            /\ dt = StrCell(DateText(2025, 1, 10)) => new_filename = Name_2025_02

C7_Witness ==
    /\ pc = "named"
    /\ dt = StrCell(DateText(2024, 12, 30))
    /\ new_filename = <<"2", "0", "2", "5", "_", "0", "1">> \o DotCsv

-----------------------------------------------------------------------------
(* Properties of convert_excel_to_csv *)

Errors == {j \in 1..Len(out) : out[j].msg = "Error processing"}

SavedNames == {out[j].f : j \in {h \in 1..Len(out) : out[h].msg = "Saved"}}

SheetFiles == {xls.sheets[j].name \o DotCsv : j \in 1..Len(xls.sheets)}

Exported(j) == ToCsv(ReadExcel(xls.sheets[j].rows))

\* C3 as stated: after convert_excel_to_csv returns, the directory holds
\* exactly one exported file <sheet_name>.csv for each of the N sheets.
C3_Original ==
    pc = "done" =>
        /\ SavedNames = SheetFiles
        /\ Cardinality(SavedNames) = Len(xls.sheets)
        /\ \A j \in 1..Len(xls.sheets) :
              /\ xls.sheets[j].name \o DotCsv \in DOMAIN dir
              /\ dir[xls.sheets[j].name \o DotCsv] = Exported(j)

\* C3 amended: when convert_excel_to_csv returns without having reported an
\* error, the directory holds exactly one exported file <sheet_name>.csv for
\* each of the N sheets of the workbook.
C3_OneFilePerSheet ==
    (pc = "done" /\ Errors = {}) =>
        /\ SavedNames = SheetFiles
        /\ Cardinality(SavedNames) = Len(xls.sheets)
        /\ Cardinality({j \in 1..Len(out) : out[j].msg = "Saved"}) = Len(xls.sheets)
        /\ \A j \in 1..Len(xls.sheets) :
              /\ xls.sheets[j].name \o DotCsv \in DOMAIN dir
              /\ dir[xls.sheets[j].name \o DotCsv] = Exported(j)

C3_Witness ==
    /\ pc = "done"
    /\ Errors = {}
    /\ Len(xls.sheets) = 3
    /\ Cardinality(SavedNames) = 3
    /\ \E f \in SavedNames : f \in DOMAIN dir0 /\ dir0[f] # dir[f]

\* C5: an error at sheet k ends the export: no later sheet is processed or
\* written, the files of the sheets before k stay, the error is reported once
\* and the function returns normally.
C5_ErrorAbortsExport ==
    Errors # {} =>
        /\ pc = "done"
        /\ Errors = {Len(out)}
        /\ \A j \in 1..k :
              /\ xls.sheets[j].name \o DotCsv \in DOMAIN dir
              /\ dir[xls.sheets[j].name \o DotCsv] = Exported(j)
        /\ \A j \in (k + 2)..Len(xls.sheets) :
              LET f == xls.sheets[j].name \o DotCsv
              IN  /\ \A h \in 1..Len(out) : out[h].f \notin {f, xls.sheets[j].name}
                  /\ f \in DOMAIN dir <=> f \in DOMAIN dir0
                  /\ f \in DOMAIN dir => dir[f] = dir0[f]

C5_Witness ==
    /\ pc = "done"
    /\ Errors # {}
    /\ k = 1
    /\ Len(xls.sheets) = 3
    /\ xls.sheets[1].name \o DotCsv \in DOMAIN dir
    /\ xls.sheets[3].name \o DotCsv \notin DOMAIN dir

====
